---- MODULE Spec2Model ----
(***************************************************************************)
(* Model of the LibDS Protocol base class (Core/Protocol.h): the eight     *)
(* packet counters, the generate*/read* wrappers, resetLossCounter, the    *)
(* counter accessors and the diagnostic hooks, together with the part of   *)
(* DS_Config the wrappers use (the comms status of each peer).             *)
(*                                                                         *)
(* The virtual decoders interpret{FMS,Radio,Robot}Packet are supplied by   *)
(* the protocol variant; their verdict on the received bytes is the input  *)
(* of the read* actions.                                                   *)
(***************************************************************************)
EXTENDS Integers, Sequences, FiniteSets, TLC

VARIABLES
    m_sentFmsPackets,
    m_sentRadioPackets,
    m_sentRobotPackets,
    m_receivedFmsPackets,
    m_receivedRadioPackets,
    m_receivedRobotPackets,
    m_recvRobotPacketsSinceConnect,
    m_sentRobotPacketsSinceConnect,
    m_fmsCommStatus,      \* DS_Config: comms status of the FMS
    m_radioCommStatus,    \* DS_Config: comms status of the radio
    m_robotCommStatus,    \* DS_Config: comms status of the robot
    lastCall,             \* name of the operation that returned last
    decoded,              \* verdict of the variant's decoder in the last read*
    ret,                  \* boolean returned by the last read* call
    packet,               \* bytes returned by the last generate*Packet call
    m_restartCode,        \* FRC_2015: restart-code request latch
    m_rebootRobot,        \* FRC_2015: reboot request latch
    m_alliance,           \* DS_Config: alliance of the team station
    m_position,           \* DS_Config: position of the team station
    tick,                 \* unserialized caller of generateRobotPacket
    receiver,             \* unserialized caller of readRobotPacket
    serialized            \* whether the integrator serializes the two callers

counters == <<m_sentFmsPackets, m_sentRadioPackets, m_sentRobotPackets,
              m_receivedFmsPackets, m_receivedRadioPackets,
              m_receivedRobotPackets>>
sinceConnect == <<m_recvRobotPacketsSinceConnect, m_sentRobotPacketsSinceConnect>>
commStatus == <<m_fmsCommStatus, m_radioCommStatus, m_robotCommStatus>>
latches == <<m_restartCode, m_rebootRobot>>
station == <<m_alliance, m_position>>
threads == <<tick, receiver, serialized>>
vars == <<counters, sinceConnect, commStatus, lastCall, decoded, ret, packet,
          latches, station, threads>>

----------------------------------------------------------------------------
(* Bounds of the model *)

MaxPeerCount == 1       \* cap of the FMS and radio counters
MaxRobotCount == 3      \* cap of the robot counters
ScenarioSent == 11      \* cap of sentRobot in the reconnect scenario

----------------------------------------------------------------------------
(* DS_Config, as far as Protocol uses it *)

kCommsWorking == "kCommsWorking"
kCommsFailing == "kCommsFailing"
CommStatuses == {kCommsFailing, kCommsWorking}

\* DS_Config::isConnectedToRobot()
isConnectedToRobot == m_robotCommStatus = kCommsWorking

\* The verdicts a variant's decoder can give on received bytes
DecoderVerdicts == BOOLEAN

kAllianceRed == "kAllianceRed"
kAllianceBlue == "kAllianceBlue"
Alliances == {kAllianceRed, kAllianceBlue}
kPosition1 == "kPosition1"
kPosition2 == "kPosition2"
kPosition3 == "kPosition3"
Positions == {kPosition1, kPosition2, kPosition3}

\* The port that tells the transport not to open a socket
DS_DISABLED_PORT == 0

----------------------------------------------------------------------------
(* Defaults of the virtual members of Protocol *)

fmsInputPort == DS_DISABLED_PORT
fmsOutputPort == DS_DISABLED_PORT
radioInputPort == DS_DISABLED_PORT
robotInputPort == DS_DISABLED_PORT
radioOutputPort == DS_DISABLED_PORT
robotOutputPort == DS_DISABLED_PORT

getFMSPacket == <<>>
getRadioPacket == <<>>
\* Variant: the default robot encoder returns a one-byte packet
getRobotPacket_nonEmpty == <<0>>

getRobotPacket == <<>>

----------------------------------------------------------------------------
(* Protocol::Protocol() *)

\* The base class has no request latches; the station of the Config is not
\* read by it.
NoVariant ==
    /\ m_restartCode = FALSE
    /\ m_rebootRobot = FALSE
    /\ m_alliance = kAllianceRed
    /\ m_position = kPosition1

\* No caller is inside generateRobotPacket or readRobotPacket
IdleThread == [pc |-> "idle", tmp |-> 0, accepted |-> FALSE]

NoThreads ==
    /\ tick = IdleThread
    /\ receiver = IdleThread
    /\ serialized = TRUE

Protocol ==
    /\ m_sentFmsPackets = 0
    /\ m_sentRadioPackets = 0
    /\ m_sentRobotPackets = 0
    /\ m_receivedFmsPackets = 0
    /\ m_receivedRadioPackets = 0
    /\ m_receivedRobotPackets = 0
    /\ m_recvRobotPacketsSinceConnect = 0
    /\ m_sentRobotPacketsSinceConnect = 0

\* The Config singleton outlives protocol instances (protocol switch), so a
\* new instance can meet any comms status.
Init ==
    /\ Protocol
    /\ m_fmsCommStatus \in CommStatuses
    /\ m_radioCommStatus \in CommStatuses
    /\ m_robotCommStatus \in CommStatuses
    /\ lastCall = "Protocol"
    /\ decoded = FALSE
    /\ ret = FALSE
    /\ packet = <<>>
    /\ NoVariant
    /\ NoThreads

\* A fresh instance while no peer is connected
InitFresh ==
    /\ Protocol
    /\ m_fmsCommStatus = kCommsFailing
    /\ m_radioCommStatus = kCommsFailing
    /\ m_robotCommStatus = kCommsFailing
    /\ lastCall = "Protocol"
    /\ decoded = FALSE
    /\ ret = FALSE
    /\ packet = <<>>
    /\ NoVariant
    /\ NoThreads

----------------------------------------------------------------------------
(* Counter accessors *)

sentFMSPackets == m_sentFmsPackets
sentRadioPackets == m_sentRadioPackets
sentRobotPackets == m_sentRobotPackets
receivedFMSPackets == m_receivedRobotPackets
receivedRadioPackets == m_receivedRobotPackets
receivedRobotPackets == m_receivedRobotPackets
recvRobotPacketsSinceConnect == m_recvRobotPacketsSinceConnect
sentRobotPacketsSinceConnect == m_sentRobotPacketsSinceConnect

----------------------------------------------------------------------------
(* generate*Packet *)

\* Variant: a tick is counted only when there is something to send
generateFMSPacket_skipEmpty ==
    /\ m_sentFmsPackets' = IF getFMSPacket = <<>> THEN m_sentFmsPackets
                                                  ELSE m_sentFmsPackets + 1
    /\ lastCall' = "generateFMSPacket"
    /\ packet' = getFMSPacket
    /\ UNCHANGED <<latches, station, threads>>
    /\ decoded' = FALSE
    /\ ret' = FALSE
    /\ UNCHANGED <<m_sentRadioPackets, m_sentRobotPackets,
                   m_receivedFmsPackets, m_receivedRadioPackets,
                   m_receivedRobotPackets, sinceConnect, commStatus>>

generateFMSPacket ==
    /\ m_sentFmsPackets' = m_sentFmsPackets + 1
    /\ lastCall' = "generateFMSPacket"
    /\ packet' = getFMSPacket
    /\ UNCHANGED <<latches, station, threads>>
    /\ decoded' = FALSE
    /\ ret' = FALSE
    /\ UNCHANGED <<m_sentRadioPackets, m_sentRobotPackets,
                   m_receivedFmsPackets, m_receivedRadioPackets,
                   m_receivedRobotPackets, sinceConnect, commStatus>>

generateRadioPacket ==
    /\ m_sentRadioPackets' = m_sentRadioPackets + 1
    /\ lastCall' = "generateRadioPacket"
    /\ packet' = getRadioPacket
    /\ UNCHANGED <<latches, station, threads>>
    /\ decoded' = FALSE
    /\ ret' = FALSE
    /\ UNCHANGED <<m_sentFmsPackets, m_sentRobotPackets,
                   m_receivedFmsPackets, m_receivedRadioPackets,
                   m_receivedRobotPackets, sinceConnect, commStatus>>

\* Variant: the since-connect counter is decremented instead of incremented
generateRobotPacket_decrement ==
    /\ m_sentRobotPackets' = m_sentRobotPackets + 1
    /\ m_sentRobotPacketsSinceConnect' = m_sentRobotPacketsSinceConnect - 1
    /\ lastCall' = "generateRobotPacket"
    /\ packet' = getRobotPacket
    /\ UNCHANGED <<latches, station, threads>>
    /\ decoded' = FALSE
    /\ ret' = FALSE
    /\ UNCHANGED <<m_sentFmsPackets, m_sentRadioPackets,
                   m_receivedFmsPackets, m_receivedRadioPackets,
                   m_receivedRobotPackets, m_recvRobotPacketsSinceConnect,
                   commStatus>>

\* Variant: only the since-connect counter is incremented
generateRobotPacket_noTotal ==
    /\ m_sentRobotPacketsSinceConnect' = m_sentRobotPacketsSinceConnect + 1
    /\ lastCall' = "generateRobotPacket"
    /\ packet' = getRobotPacket
    /\ UNCHANGED <<latches, station, threads>>
    /\ decoded' = FALSE
    /\ ret' = FALSE
    /\ UNCHANGED <<counters, m_recvRobotPacketsSinceConnect, commStatus>>

generateRobotPacket ==
    /\ m_sentRobotPackets' = m_sentRobotPackets + 1
    /\ m_sentRobotPacketsSinceConnect' = m_sentRobotPacketsSinceConnect + 1
    /\ lastCall' = "generateRobotPacket"
    /\ packet' = getRobotPacket
    /\ UNCHANGED <<latches, station, threads>>
    /\ decoded' = FALSE
    /\ ret' = FALSE
    /\ UNCHANGED <<m_sentFmsPackets, m_sentRadioPackets,
                   m_receivedFmsPackets, m_receivedRadioPackets,
                   m_receivedRobotPackets, m_recvRobotPacketsSinceConnect,
                   commStatus>>

----------------------------------------------------------------------------
(* read*Packet; accepted is what the variant's interpret*Packet returns *)

\* Variant: the FMS read counts in the robot's received counter
readFMSPacket_robotCounter(accepted) ==
    /\ m_receivedRobotPackets' = m_receivedRobotPackets + 1
    /\ IF accepted
       THEN /\ m_fmsCommStatus' = kCommsWorking
            /\ ret' = TRUE
       ELSE /\ m_fmsCommStatus' = m_fmsCommStatus
            /\ ret' = FALSE
    /\ lastCall' = "readFMSPacket"
    /\ packet' = <<>>
    /\ UNCHANGED <<latches, station, threads>>
    /\ decoded' = accepted
    /\ UNCHANGED <<m_sentFmsPackets, m_sentRadioPackets, m_sentRobotPackets,
                   m_receivedFmsPackets, m_receivedRadioPackets,
                   sinceConnect, m_radioCommStatus, m_robotCommStatus>>

readFMSPacket(accepted) ==
    /\ m_receivedFmsPackets' = m_receivedFmsPackets + 1
    /\ IF accepted
       THEN /\ m_fmsCommStatus' = kCommsWorking
            /\ ret' = TRUE
       ELSE /\ m_fmsCommStatus' = m_fmsCommStatus
            /\ ret' = FALSE
    /\ lastCall' = "readFMSPacket"
    /\ packet' = <<>>
    /\ UNCHANGED <<latches, station, threads>>
    /\ decoded' = accepted
    /\ UNCHANGED <<m_sentFmsPackets, m_sentRadioPackets, m_sentRobotPackets,
                   m_receivedRadioPackets, m_receivedRobotPackets,
                   sinceConnect, m_radioCommStatus, m_robotCommStatus>>

\* Variant: the radio comms status is not updated on success
readRadioPacket_noStatus(accepted) ==
    /\ m_receivedRadioPackets' = m_receivedRadioPackets + 1
    /\ ret' = accepted
    /\ lastCall' = "readRadioPacket"
    /\ packet' = <<>>
    /\ UNCHANGED <<latches, station, threads>>
    /\ decoded' = accepted
    /\ UNCHANGED <<m_sentFmsPackets, m_sentRadioPackets, m_sentRobotPackets,
                   m_receivedFmsPackets, m_receivedRobotPackets,
                   sinceConnect, commStatus>>

readRadioPacket(accepted) ==
    /\ m_receivedRadioPackets' = m_receivedRadioPackets + 1
    /\ IF accepted
       THEN /\ m_radioCommStatus' = kCommsWorking
            /\ ret' = TRUE
       ELSE /\ m_radioCommStatus' = m_radioCommStatus
            /\ ret' = FALSE
    /\ lastCall' = "readRadioPacket"
    /\ packet' = <<>>
    /\ UNCHANGED <<latches, station, threads>>
    /\ decoded' = accepted
    /\ UNCHANGED <<m_sentFmsPackets, m_sentRadioPackets, m_sentRobotPackets,
                   m_receivedFmsPackets, m_receivedRobotPackets,
                   sinceConnect, m_fmsCommStatus, m_robotCommStatus>>

\* The values resetLossCounter() assigns to <<recv, sent>> since connect
LossCounterReset == <<0, 0>>

\* Variant: the window is reset before the packet is counted
readRobotPacket_resetFirst(accepted) ==
    /\ m_receivedRobotPackets' = m_receivedRobotPackets + 1
    /\ IF accepted
       THEN /\ IF ~isConnectedToRobot
               THEN /\ m_recvRobotPacketsSinceConnect' = LossCounterReset[1] + 1
                    /\ m_sentRobotPacketsSinceConnect' = LossCounterReset[2]
               ELSE /\ m_recvRobotPacketsSinceConnect' = m_recvRobotPacketsSinceConnect + 1
                    /\ m_sentRobotPacketsSinceConnect' = m_sentRobotPacketsSinceConnect
            /\ m_robotCommStatus' = kCommsWorking
            /\ ret' = TRUE
       ELSE /\ m_recvRobotPacketsSinceConnect' = m_recvRobotPacketsSinceConnect + 1
            /\ m_sentRobotPacketsSinceConnect' = m_sentRobotPacketsSinceConnect
            /\ m_robotCommStatus' = m_robotCommStatus
            /\ ret' = FALSE
    /\ lastCall' = "readRobotPacket"
    /\ packet' = <<>>
    /\ UNCHANGED <<latches, station, threads>>
    /\ decoded' = accepted
    /\ UNCHANGED <<m_sentFmsPackets, m_sentRadioPackets, m_sentRobotPackets,
                   m_receivedFmsPackets, m_receivedRadioPackets,
                   m_fmsCommStatus, m_radioCommStatus>>

\* Variant: every accepted packet resets the window
readRobotPacket_alwaysReset(accepted) ==
    /\ m_receivedRobotPackets' = m_receivedRobotPackets + 1
    /\ IF accepted
       THEN /\ IF TRUE
               THEN /\ m_recvRobotPacketsSinceConnect' = LossCounterReset[1]
                    /\ m_sentRobotPacketsSinceConnect' = LossCounterReset[2]
               ELSE /\ m_recvRobotPacketsSinceConnect' = m_recvRobotPacketsSinceConnect + 1
                    /\ m_sentRobotPacketsSinceConnect' = m_sentRobotPacketsSinceConnect
            /\ m_robotCommStatus' = kCommsWorking
            /\ ret' = TRUE
       ELSE /\ m_recvRobotPacketsSinceConnect' = m_recvRobotPacketsSinceConnect + 1
            /\ m_sentRobotPacketsSinceConnect' = m_sentRobotPacketsSinceConnect
            /\ m_robotCommStatus' = m_robotCommStatus
            /\ ret' = FALSE
    /\ lastCall' = "readRobotPacket"
    /\ packet' = <<>>
    /\ UNCHANGED <<latches, station, threads>>
    /\ decoded' = accepted
    /\ UNCHANGED <<m_sentFmsPackets, m_sentRadioPackets, m_sentRobotPackets,
                   m_receivedFmsPackets, m_receivedRadioPackets,
                   m_fmsCommStatus, m_radioCommStatus>>

\* Variant: a rejected packet is not counted
readRobotPacket_countOnSuccess(accepted) ==
    /\ m_receivedRobotPackets' = IF accepted THEN m_receivedRobotPackets + 1 ELSE m_receivedRobotPackets
    /\ IF accepted
       THEN /\ IF ~isConnectedToRobot
               THEN /\ m_recvRobotPacketsSinceConnect' = LossCounterReset[1]
                    /\ m_sentRobotPacketsSinceConnect' = LossCounterReset[2]
               ELSE /\ m_recvRobotPacketsSinceConnect' = m_recvRobotPacketsSinceConnect + 1
                    /\ m_sentRobotPacketsSinceConnect' = m_sentRobotPacketsSinceConnect
            /\ m_robotCommStatus' = kCommsWorking
            /\ ret' = TRUE
       ELSE /\ m_recvRobotPacketsSinceConnect' = m_recvRobotPacketsSinceConnect
            /\ m_sentRobotPacketsSinceConnect' = m_sentRobotPacketsSinceConnect
            /\ m_robotCommStatus' = m_robotCommStatus
            /\ ret' = FALSE
    /\ lastCall' = "readRobotPacket"
    /\ packet' = <<>>
    /\ UNCHANGED <<latches, station, threads>>
    /\ decoded' = accepted
    /\ UNCHANGED <<m_sentFmsPackets, m_sentRadioPackets, m_sentRobotPackets,
                   m_receivedFmsPackets, m_receivedRadioPackets,
                   m_fmsCommStatus, m_radioCommStatus>>

\* Variant: the reconnect reset clears only the received counter
readRobotPacket_keepSent(accepted) ==
    /\ m_receivedRobotPackets' = m_receivedRobotPackets + 1
    /\ IF accepted
       THEN /\ IF ~isConnectedToRobot
               THEN /\ m_recvRobotPacketsSinceConnect' = LossCounterReset[1]
                    /\ m_sentRobotPacketsSinceConnect' = m_sentRobotPacketsSinceConnect
               ELSE /\ m_recvRobotPacketsSinceConnect' = m_recvRobotPacketsSinceConnect + 1
                    /\ m_sentRobotPacketsSinceConnect' = m_sentRobotPacketsSinceConnect
            /\ m_robotCommStatus' = kCommsWorking
            /\ ret' = TRUE
       ELSE /\ m_recvRobotPacketsSinceConnect' = m_recvRobotPacketsSinceConnect + 1
            /\ m_sentRobotPacketsSinceConnect' = m_sentRobotPacketsSinceConnect
            /\ m_robotCommStatus' = m_robotCommStatus
            /\ ret' = FALSE
    /\ lastCall' = "readRobotPacket"
    /\ packet' = <<>>
    /\ UNCHANGED <<latches, station, threads>>
    /\ decoded' = accepted
    /\ UNCHANGED <<m_sentFmsPackets, m_sentRadioPackets, m_sentRobotPackets,
                   m_receivedFmsPackets, m_receivedRadioPackets,
                   m_fmsCommStatus, m_radioCommStatus>>

readRobotPacket(accepted) ==
    /\ m_receivedRobotPackets' = m_receivedRobotPackets + 1
    /\ IF accepted
       THEN /\ IF ~isConnectedToRobot
               THEN /\ m_recvRobotPacketsSinceConnect' = LossCounterReset[1]
                    /\ m_sentRobotPacketsSinceConnect' = LossCounterReset[2]
               ELSE /\ m_recvRobotPacketsSinceConnect' =
                           m_recvRobotPacketsSinceConnect + 1
                    /\ m_sentRobotPacketsSinceConnect' =
                           m_sentRobotPacketsSinceConnect
            /\ m_robotCommStatus' = kCommsWorking
            /\ ret' = TRUE
       ELSE /\ m_recvRobotPacketsSinceConnect' =
                   m_recvRobotPacketsSinceConnect + 1
            /\ m_sentRobotPacketsSinceConnect' = m_sentRobotPacketsSinceConnect
            /\ m_robotCommStatus' = m_robotCommStatus
            /\ ret' = FALSE
    /\ lastCall' = "readRobotPacket"
    /\ packet' = <<>>
    /\ UNCHANGED <<latches, station, threads>>
    /\ decoded' = accepted
    /\ UNCHANGED <<m_sentFmsPackets, m_sentRadioPackets, m_sentRobotPackets,
                   m_receivedFmsPackets, m_receivedRadioPackets,
                   m_fmsCommStatus, m_radioCommStatus>>

\* Variant: the reset also clears the session counters of the robot
resetLossCounter_all ==
    /\ m_recvRobotPacketsSinceConnect' = LossCounterReset[1]
    /\ m_sentRobotPacketsSinceConnect' = LossCounterReset[2]
    /\ m_sentRobotPackets' = 0
    /\ m_receivedRobotPackets' = 0
    /\ lastCall' = "resetLossCounter"
    /\ packet' = <<>>
    /\ UNCHANGED <<latches, station, threads>>
    /\ decoded' = FALSE
    /\ ret' = FALSE
    /\ UNCHANGED <<m_sentFmsPackets, m_sentRadioPackets, m_receivedFmsPackets,
                   m_receivedRadioPackets, commStatus>>

\* Variant: the reset clears only the received counter
resetLossCounter_recvOnly ==
    /\ m_recvRobotPacketsSinceConnect' = LossCounterReset[1]
    /\ m_sentRobotPacketsSinceConnect' = m_sentRobotPacketsSinceConnect
    /\ lastCall' = "resetLossCounter"
    /\ packet' = <<>>
    /\ UNCHANGED <<latches, station, threads>>
    /\ decoded' = FALSE
    /\ ret' = FALSE
    /\ UNCHANGED <<counters, commStatus>>

resetLossCounter ==
    /\ m_recvRobotPacketsSinceConnect' = LossCounterReset[1]
    /\ m_sentRobotPacketsSinceConnect' = LossCounterReset[2]
    /\ lastCall' = "resetLossCounter"
    /\ packet' = <<>>
    /\ UNCHANGED <<latches, station, threads>>
    /\ decoded' = FALSE
    /\ ret' = FALSE
    /\ UNCHANGED <<counters, commStatus>>

----------------------------------------------------------------------------
(* Diagnostic hooks: empty bodies in the base class *)

rebootRobot ==
    /\ lastCall' = "rebootRobot"
    /\ packet' = <<>>
    /\ UNCHANGED <<latches, station, threads>>
    /\ decoded' = FALSE
    /\ ret' = FALSE
    /\ UNCHANGED <<counters, sinceConnect, commStatus>>

restartRobotCode ==
    /\ lastCall' = "restartRobotCode"
    /\ packet' = <<>>
    /\ UNCHANGED <<latches, station, threads>>
    /\ decoded' = FALSE
    /\ ret' = FALSE
    /\ UNCHANGED <<counters, sinceConnect, commStatus>>

onFMSWatchdogExpired ==
    /\ lastCall' = "onFMSWatchdogExpired"
    /\ packet' = <<>>
    /\ UNCHANGED <<latches, station, threads>>
    /\ decoded' = FALSE
    /\ ret' = FALSE
    /\ UNCHANGED <<counters, sinceConnect, commStatus>>

onRadioWatchdogExpired ==
    /\ lastCall' = "onRadioWatchdogExpired"
    /\ packet' = <<>>
    /\ UNCHANGED <<latches, station, threads>>
    /\ decoded' = FALSE
    /\ ret' = FALSE
    /\ UNCHANGED <<counters, sinceConnect, commStatus>>

\* Variant: the robot watchdog hook clears the loss window
onRobotWatchdogExpired_reset ==
    /\ m_recvRobotPacketsSinceConnect' = LossCounterReset[1]
    /\ m_sentRobotPacketsSinceConnect' = LossCounterReset[2]
    /\ lastCall' = "onRobotWatchdogExpired"
    /\ packet' = <<>>
    /\ UNCHANGED <<latches, station, threads>>
    /\ decoded' = FALSE
    /\ ret' = FALSE
    /\ UNCHANGED <<counters, commStatus>>

onRobotWatchdogExpired ==
    /\ lastCall' = "onRobotWatchdogExpired"
    /\ packet' = <<>>
    /\ UNCHANGED <<latches, station, threads>>
    /\ decoded' = FALSE
    /\ ret' = FALSE
    /\ UNCHANGED <<counters, sinceConnect, commStatus>>

----------------------------------------------------------------------------
(* The external watchdog: Config marks a peer's comms as failing *)

updateFMSCommStatus(status) ==
    /\ m_fmsCommStatus' = status
    /\ lastCall' = "updateFMSCommStatus"
    /\ packet' = <<>>
    /\ UNCHANGED <<latches, station, threads>>
    /\ decoded' = FALSE
    /\ ret' = FALSE
    /\ UNCHANGED <<counters, sinceConnect, m_radioCommStatus, m_robotCommStatus>>

updateRadioCommStatus(status) ==
    /\ m_radioCommStatus' = status
    /\ lastCall' = "updateRadioCommStatus"
    /\ packet' = <<>>
    /\ UNCHANGED <<latches, station, threads>>
    /\ decoded' = FALSE
    /\ ret' = FALSE
    /\ UNCHANGED <<counters, sinceConnect, m_fmsCommStatus, m_robotCommStatus>>

updateRobotCommStatus(status) ==
    /\ m_robotCommStatus' = status
    /\ lastCall' = "updateRobotCommStatus"
    /\ packet' = <<>>
    /\ UNCHANGED <<latches, station, threads>>
    /\ decoded' = FALSE
    /\ ret' = FALSE
    /\ UNCHANGED <<counters, sinceConnect, m_fmsCommStatus, m_radioCommStatus>>

----------------------------------------------------------------------------
(* FRC_2015: the concrete variant.  Its request latches, request code and  *)
(* station code follow the protocol contract; joystick and clock-sync      *)
(* trailers are left out (no joystick attached, clock already sent).       *)

ControlCodes == {0, 1}
StationCodes == 0 .. 5

\* FRC_2015::FRC_2015(): both request latches start Idle
FRC_2015 ==
    /\ Protocol
    /\ m_restartCode = FALSE
    /\ m_rebootRobot = FALSE

InitFRC ==
    /\ FRC_2015
    /\ m_fmsCommStatus = kCommsFailing
    /\ m_radioCommStatus = kCommsFailing
    /\ m_robotCommStatus \in CommStatuses
    /\ m_alliance \in Alliances
    /\ m_position \in Positions
    /\ lastCall = "FRC_2015"
    /\ decoded = FALSE
    /\ ret = FALSE
    /\ packet = <<>>
    /\ NoThreads

\* Request code: bit 0 = restart-code pending, bit 1 = reboot pending
getRequestCode ==
    (IF m_restartCode THEN 1 ELSE 0) + (IF m_rebootRobot THEN 2 ELSE 0)

\* Station code of an (alliance, position) pair
StationCode(alliance, position) ==
    (IF alliance = kAllianceBlue THEN 3 ELSE 0)
      + (CASE position = kPosition1 -> 0
           [] position = kPosition2 -> 1
           [] position = kPosition3 -> 2)

getTeamStationCode == StationCode(m_alliance, m_position)

getAlliance(code) ==
    IF code \in {3, 4, 5} THEN kAllianceBlue ELSE kAllianceRed

\* Variant: positions 2 and 3 are exchanged when decoding
getPosition_swapped(code) ==
    CASE code \in {0, 3} -> kPosition1
      [] code \in {1, 4} -> kPosition3
      [] code \in {2, 5} -> kPosition2
      [] OTHER -> kPosition1

getPosition(code) ==
    CASE code \in {0, 3} -> kPosition1
      [] code \in {1, 4} -> kPosition2
      [] code \in {2, 5} -> kPosition3
      [] OTHER -> kPosition1

\* Header of a client-to-robot packet: control, request and station code
FRC_2015_getRobotPacket(control) ==
    <<control, getRequestCode, getTeamStationCode>>

\* generateRobotPacket() with the variant's getRobotPacket()
FRC_2015_generateRobotPacket(control) ==
    /\ m_sentRobotPackets' = m_sentRobotPackets + 1
    /\ m_sentRobotPacketsSinceConnect' = m_sentRobotPacketsSinceConnect + 1
    /\ lastCall' = "generateRobotPacket"
    /\ packet' = FRC_2015_getRobotPacket(control)
    /\ decoded' = FALSE
    /\ ret' = FALSE
    /\ UNCHANGED <<m_sentFmsPackets, m_sentRadioPackets,
                   m_receivedFmsPackets, m_receivedRadioPackets,
                   m_receivedRobotPackets, m_recvRobotPacketsSinceConnect,
                   commStatus, latches, station, threads>>

\* An FMS packet is too short (empty here) or carries a station code
FmsPackets == {<<>>} \cup {<<code>> : code \in StationCodes}

FRC_2015_interpretFMSPacket(data) == Len(data) >= 1

\* readFMSPacket() with the variant's interpretFMSPacket(), which applies
\* the station assignment of an accepted packet to the Config
FRC_2015_readFMSPacket(data) ==
    /\ m_receivedFmsPackets' = m_receivedFmsPackets + 1
    /\ IF FRC_2015_interpretFMSPacket(data)
       THEN /\ m_alliance' = getAlliance(data[1])
            /\ m_position' = getPosition(data[1])
            /\ m_fmsCommStatus' = kCommsWorking
            /\ ret' = TRUE
       ELSE /\ UNCHANGED <<station, m_fmsCommStatus>>
            /\ ret' = FALSE
    /\ lastCall' = "readFMSPacket"
    /\ packet' = <<>>
    /\ decoded' = FRC_2015_interpretFMSPacket(data)
    /\ UNCHANGED <<m_sentFmsPackets, m_sentRadioPackets, m_sentRobotPackets,
                   m_receivedRadioPackets, m_receivedRobotPackets,
                   sinceConnect, m_radioCommStatus, m_robotCommStatus,
                   latches, threads>>

FRC_2015_rebootRobot ==
    /\ m_rebootRobot' = TRUE
    /\ lastCall' = "rebootRobot"
    /\ packet' = <<>>
    /\ decoded' = FALSE
    /\ ret' = FALSE
    /\ UNCHANGED <<counters, sinceConnect, commStatus, m_restartCode,
                   station, threads>>

FRC_2015_restartRobotCode ==
    /\ m_restartCode' = TRUE
    /\ lastCall' = "restartRobotCode"
    /\ packet' = <<>>
    /\ decoded' = FALSE
    /\ ret' = FALSE
    /\ UNCHANGED <<counters, sinceConnect, commStatus, m_rebootRobot,
                   station, threads>>

\* Variant: the watchdog expiry drops the pending requests
FRC_2015_onRobotWatchdogExpired_clear ==
    /\ m_rebootRobot' = FALSE
    /\ m_restartCode' = FALSE
    /\ lastCall' = "onRobotWatchdogExpired"
    /\ packet' = <<>>
    /\ decoded' = FALSE
    /\ ret' = FALSE
    /\ UNCHANGED <<counters, sinceConnect, commStatus, station, threads>>

\* The contract defines no automatic transition of the latches
FRC_2015_onRobotWatchdogExpired ==
    /\ lastCall' = "onRobotWatchdogExpired"
    /\ packet' = <<>>
    /\ decoded' = FALSE
    /\ ret' = FALSE
    /\ UNCHANGED <<counters, sinceConnect, commStatus, latches, station,
                   threads>>

----------------------------------------------------------------------------
(* Specifications *)

Next ==
    \/ m_sentFmsPackets < MaxPeerCount /\ generateFMSPacket
    \/ m_sentRadioPackets < MaxPeerCount /\ generateRadioPacket
    \/ m_sentRobotPackets < MaxRobotCount /\ generateRobotPacket
    \/ m_receivedFmsPackets < MaxPeerCount
         /\ \E accepted \in DecoderVerdicts : readFMSPacket(accepted)
    \/ m_receivedRadioPackets < MaxPeerCount
         /\ \E accepted \in DecoderVerdicts : readRadioPacket(accepted)
    \/ m_receivedRobotPackets < MaxRobotCount
         /\ \E accepted \in DecoderVerdicts : readRobotPacket(accepted)
    \/ resetLossCounter
    \/ rebootRobot
    \/ restartRobotCode
    \/ onFMSWatchdogExpired
    \/ onRadioWatchdogExpired
    \/ onRobotWatchdogExpired
    \/ updateFMSCommStatus(kCommsFailing)
    \/ updateRadioCommStatus(kCommsFailing)
    \/ updateRobotCommStatus(kCommsFailing)

Spec == Init /\ [][Next]_vars

\* The reconnect scenario: a fresh instance, many robot packets generated
\* before the robot answers, any read* calls afterwards.
NextScenario ==
    \/ m_sentRobotPackets < ScenarioSent /\ generateRobotPacket
    \/ m_receivedRobotPackets < MaxRobotCount
         /\ \E accepted \in DecoderVerdicts : readRobotPacket(accepted)
    \/ m_receivedFmsPackets < MaxPeerCount
         /\ \E accepted \in DecoderVerdicts : readFMSPacket(accepted)
    \/ m_receivedRadioPackets < MaxPeerCount
         /\ \E accepted \in DecoderVerdicts : readRadioPacket(accepted)
    \/ updateRobotCommStatus(kCommsFailing)

SpecScenario == InitFresh /\ [][NextScenario]_vars

\* The concrete variant driven by the tick loop, the robot and FMS
\* receivers, the diagnostic requests and the robot watchdog
NextFRC ==
    \/ m_sentRobotPackets < MaxRobotCount
         /\ \E control \in ControlCodes : FRC_2015_generateRobotPacket(control)
    \/ m_receivedRobotPackets < MaxRobotCount
         /\ \E accepted \in DecoderVerdicts : readRobotPacket(accepted)
    \/ m_receivedFmsPackets < MaxPeerCount
         /\ \E data \in FmsPackets : FRC_2015_readFMSPacket(data)
    \/ FRC_2015_rebootRobot
    \/ FRC_2015_restartRobotCode
    \/ FRC_2015_onRobotWatchdogExpired
    \/ updateRobotCommStatus(kCommsFailing)

SpecFRC == InitFRC /\ [][NextFRC]_vars

----------------------------------------------------------------------------
(* One generateRobotPacket call and one readRobotPacket call made from two  *)
(* threads.  Every ++ is a load followed by a store, the reset is two       *)
(* stores; the counters are plain ints, so any interleaving of these steps  *)
(* can occur unless the integrator serializes the calls.                    *)

\* A call may start while the other one is in progress only if the
\* integrator does not serialize the calls
CanEnter(other) == serialized => other.pc \in {"idle", "done"}

\* The instance after some generate calls and some rejected reads, the robot
\* still marked disconnected
InitRace ==
    /\ m_sentFmsPackets = 0
    /\ m_sentRadioPackets = 0
    /\ m_receivedFmsPackets = 0
    /\ m_receivedRadioPackets = 0
    /\ m_sentRobotPackets \in 0 .. MaxRobotCount
    /\ m_sentRobotPacketsSinceConnect = m_sentRobotPackets
    /\ m_receivedRobotPackets \in 0 .. MaxRobotCount
    /\ m_recvRobotPacketsSinceConnect = m_receivedRobotPackets
    /\ m_fmsCommStatus = kCommsFailing
    /\ m_radioCommStatus = kCommsFailing
    /\ m_robotCommStatus = kCommsFailing
    /\ lastCall = "Protocol"
    /\ decoded = FALSE
    /\ ret = FALSE
    /\ packet = <<>>
    /\ NoVariant
    /\ tick = IdleThread
    /\ receiver = IdleThread
    /\ serialized \in BOOLEAN

\* What a step inside a call leaves alone
InCallFrame ==
    UNCHANGED <<m_sentFmsPackets, m_sentRadioPackets, m_receivedFmsPackets,
                m_receivedRadioPackets, m_fmsCommStatus, m_radioCommStatus,
                latches, station, serialized>>

\* generateRobotPacket: ++m_sentRobotPackets
tick_loadSent ==
    /\ tick.pc = "idle"
    /\ CanEnter(receiver)
    /\ tick' = [tick EXCEPT !.pc = "loadedSent", !.tmp = m_sentRobotPackets]
    /\ InCallFrame
    /\ UNCHANGED <<m_sentRobotPackets, m_receivedRobotPackets, sinceConnect,
                   m_robotCommStatus, lastCall, decoded, ret, packet, receiver>>

tick_storeSent ==
    /\ tick.pc = "loadedSent"
    /\ m_sentRobotPackets' = tick.tmp + 1
    /\ tick' = [tick EXCEPT !.pc = "storedSent"]
    /\ InCallFrame
    /\ UNCHANGED <<m_receivedRobotPackets, sinceConnect,
                   m_robotCommStatus, lastCall, decoded, ret, packet, receiver>>

\* generateRobotPacket: ++m_sentRobotPacketsSinceConnect
tick_loadSince ==
    /\ tick.pc = "storedSent"
    /\ tick' = [tick EXCEPT !.pc = "loadedSince",
                            !.tmp = m_sentRobotPacketsSinceConnect]
    /\ InCallFrame
    /\ UNCHANGED <<m_sentRobotPackets, m_receivedRobotPackets, sinceConnect,
                   m_robotCommStatus, lastCall, decoded, ret, packet, receiver>>

\* the store of the second ++ and return getRobotPacket()
tick_storeSince ==
    /\ tick.pc = "loadedSince"
    /\ m_sentRobotPacketsSinceConnect' = tick.tmp + 1
    /\ tick' = [tick EXCEPT !.pc = "done"]
    /\ lastCall' = "generateRobotPacket"
    /\ packet' = getRobotPacket
    /\ decoded' = FALSE
    /\ ret' = FALSE
    /\ InCallFrame
    /\ UNCHANGED <<m_sentRobotPackets, m_receivedRobotPackets,
                   m_recvRobotPacketsSinceConnect, m_robotCommStatus,
                   receiver>>

\* readRobotPacket: ++m_receivedRobotPackets
receiver_loadRecv ==
    /\ receiver.pc = "idle"
    /\ CanEnter(tick)
    /\ receiver' = [receiver EXCEPT !.pc = "loadedRecv",
                                    !.tmp = m_receivedRobotPackets]
    /\ InCallFrame
    /\ UNCHANGED <<m_sentRobotPackets, m_receivedRobotPackets, sinceConnect,
                   m_robotCommStatus, lastCall, decoded, ret, packet, tick>>

receiver_storeRecv ==
    /\ receiver.pc = "loadedRecv"
    /\ m_receivedRobotPackets' = receiver.tmp + 1
    /\ receiver' = [receiver EXCEPT !.pc = "storedRecv"]
    /\ InCallFrame
    /\ UNCHANGED <<m_sentRobotPackets, sinceConnect,
                   m_robotCommStatus, lastCall, decoded, ret, packet, tick>>

\* readRobotPacket: ++m_recvRobotPacketsSinceConnect
receiver_loadSince ==
    /\ receiver.pc = "storedRecv"
    /\ receiver' = [receiver EXCEPT !.pc = "loadedSince",
                                    !.tmp = m_recvRobotPacketsSinceConnect]
    /\ InCallFrame
    /\ UNCHANGED <<m_sentRobotPackets, m_receivedRobotPackets, sinceConnect,
                   m_robotCommStatus, lastCall, decoded, ret, packet, tick>>

receiver_storeSince ==
    /\ receiver.pc = "loadedSince"
    /\ m_recvRobotPacketsSinceConnect' = receiver.tmp + 1
    /\ receiver' = [receiver EXCEPT !.pc = "counted"]
    /\ InCallFrame
    /\ UNCHANGED <<m_sentRobotPackets, m_receivedRobotPackets,
                   m_sentRobotPacketsSinceConnect,
                   m_robotCommStatus, lastCall, decoded, ret, packet, tick>>

\* if (interpretRobotPacket (data)) { if (!config()->isConnectedToRobot())
\* ... } return false;
receiver_interpret(accepted) ==
    /\ receiver.pc = "counted"
    /\ receiver' = [receiver EXCEPT
                      !.accepted = accepted,
                      !.pc = IF ~accepted THEN "done"
                             ELSE IF ~isConnectedToRobot THEN "resetRecv"
                             ELSE "update"]
    /\ decoded' = accepted
    /\ IF accepted
       THEN UNCHANGED <<lastCall, ret, packet>>
       ELSE /\ lastCall' = "readRobotPacket"
            /\ ret' = FALSE
            /\ packet' = <<>>
    /\ InCallFrame
    /\ UNCHANGED <<m_sentRobotPackets, m_receivedRobotPackets, sinceConnect,
                   m_robotCommStatus, tick>>

\* resetLossCounter: m_recvRobotPacketsSinceConnect = 0
receiver_resetRecv ==
    /\ receiver.pc = "resetRecv"
    /\ m_recvRobotPacketsSinceConnect' = LossCounterReset[1]
    /\ receiver' = [receiver EXCEPT !.pc = "resetSent"]
    /\ InCallFrame
    /\ UNCHANGED <<m_sentRobotPackets, m_receivedRobotPackets,
                   m_sentRobotPacketsSinceConnect,
                   m_robotCommStatus, lastCall, decoded, ret, packet, tick>>

\* Variant: the reset leaves the sent counter of the window alone
receiver_resetSent_skip ==
    /\ receiver.pc = "resetSent"
    /\ receiver' = [receiver EXCEPT !.pc = "update"]
    /\ InCallFrame
    /\ UNCHANGED <<m_sentRobotPackets, m_receivedRobotPackets, sinceConnect,
                   m_robotCommStatus, lastCall, decoded, ret, packet, tick>>

\* resetLossCounter: m_sentRobotPacketsSinceConnect = 0
receiver_resetSent ==
    /\ receiver.pc = "resetSent"
    /\ m_sentRobotPacketsSinceConnect' = LossCounterReset[2]
    /\ receiver' = [receiver EXCEPT !.pc = "update"]
    /\ InCallFrame
    /\ UNCHANGED <<m_sentRobotPackets, m_receivedRobotPackets,
                   m_recvRobotPacketsSinceConnect,
                   m_robotCommStatus, lastCall, decoded, ret, packet, tick>>

\* config()->updateRobotCommStatus (DS::kCommsWorking); return true;
receiver_update ==
    /\ receiver.pc = "update"
    /\ m_robotCommStatus' = kCommsWorking
    /\ receiver' = [receiver EXCEPT !.pc = "done"]
    /\ lastCall' = "readRobotPacket"
    /\ ret' = TRUE
    /\ packet' = <<>>
    /\ InCallFrame
    /\ UNCHANGED <<m_sentRobotPackets, m_receivedRobotPackets, sinceConnect,
                   decoded, tick>>

NextRace ==
    \/ tick_loadSent
    \/ tick_storeSent
    \/ tick_loadSince
    \/ tick_storeSince
    \/ receiver_loadRecv
    \/ receiver_storeRecv
    \/ receiver_loadSince
    \/ receiver_storeSince
    \/ \E accepted \in DecoderVerdicts : receiver_interpret(accepted)
    \/ receiver_resetRecv
    \/ receiver_resetSent
    \/ receiver_update

SpecRace == InitRace /\ [][NextRace]_vars

----------------------------------------------------------------------------
(* Properties *)

ReadCalls == {"readFMSPacket", "readRadioPacket", "readRobotPacket"}

\* A readRobotPacket step whose packet the decoder accepts while Config
\* marks the robot as disconnected
ReconnectRead ==
    /\ lastCall' = "readRobotPacket"
    /\ packet' = <<>>
    /\ UNCHANGED <<latches, station, threads>>
    /\ decoded'
    /\ ~isConnectedToRobot

\* C1 (as claimed): after a reconnecting read (robot marked disconnected at
\* call time, decoder accepts) recvRobotSinceConnect = 1.
C1_ReconnectReadCountsPacket ==
    [][ReconnectRead => m_recvRobotPacketsSinceConnect' = 1]_vars

\* C1 (amended): after a reconnecting read the since-connect pair is (0,0),
\* for any prior counter values: the packet is counted first and the reset
\* that follows discards it, so it is not a sample of the new window.
C1_ReconnectReadClearsWindow ==
    [][ReconnectRead => /\ m_recvRobotPacketsSinceConnect' = 0
                        /\ m_sentRobotPacketsSinceConnect' = 0
                        /\ ret']_vars

C1_Witness ==
    /\ lastCall = "readRobotPacket"
    /\ ret
    /\ m_recvRobotPacketsSinceConnect = 0
    /\ m_sentRobotPacketsSinceConnect = 0
    /\ m_receivedRobotPackets > 1
    /\ m_sentRobotPackets > 1

\* C2 (as claimed): in every reachable state
\* 0 <= recvRobotSinceConnect <= sentRobotSinceConnect.
C2_RecvWithinSent ==
    /\ 0 <= m_recvRobotPacketsSinceConnect
    /\ m_recvRobotPacketsSinceConnect <= m_sentRobotPacketsSinceConnect

\* C2 (amended): in every reachable state both since-connect counters are
\* non-negative; recvRobotSinceConnect is not bounded by
\* sentRobotSinceConnect.
C2_SinceConnectNonNegative ==
    /\ 0 <= m_recvRobotPacketsSinceConnect
    /\ 0 <= m_sentRobotPacketsSinceConnect

C2_Witness ==
    /\ m_recvRobotPacketsSinceConnect > m_sentRobotPacketsSinceConnect
    /\ m_sentRobotPacketsSinceConnect > 0
    /\ lastCall = "readRobotPacket"

\* C3: for each peer a generate call raises the sent accessor by one and the
\* read of the echoed bytes raises the received accessor by one, so N
\* generate/read pairs raise both accessors by exactly N.
C3_LoopbackAccessors ==
    [][ /\ lastCall' = "generateFMSPacket" =>
              /\ sentFMSPackets' = sentFMSPackets + 1
              /\ receivedFMSPackets' = receivedFMSPackets
        /\ lastCall' = "readFMSPacket" =>
              /\ receivedFMSPackets' = receivedFMSPackets + 1
              /\ sentFMSPackets' = sentFMSPackets
        /\ lastCall' = "generateRadioPacket" =>
              /\ sentRadioPackets' = sentRadioPackets + 1
              /\ receivedRadioPackets' = receivedRadioPackets
        /\ lastCall' = "readRadioPacket" =>
              /\ receivedRadioPackets' = receivedRadioPackets + 1
              /\ sentRadioPackets' = sentRadioPackets
        /\ lastCall' = "generateRobotPacket" =>
              /\ sentRobotPackets' = sentRobotPackets + 1
              /\ receivedRobotPackets' = receivedRobotPackets
        /\ lastCall' = "readRobotPacket" =>
              /\ receivedRobotPackets' = receivedRobotPackets + 1
              /\ sentRobotPackets' = sentRobotPackets ]_vars

\* C4: in every reachable state sentRobotSinceConnect <= sentRobot and
\* recvRobotSinceConnect <= recvRobot.
C4_SinceConnectWithinSession ==
    /\ m_sentRobotPacketsSinceConnect <= m_sentRobotPackets
    /\ m_recvRobotPacketsSinceConnect <= m_receivedRobotPackets

C4_Witness ==
    /\ 0 < m_sentRobotPacketsSinceConnect
    /\ m_sentRobotPacketsSinceConnect < m_sentRobotPackets
    /\ 0 < m_recvRobotPacketsSinceConnect
    /\ m_recvRobotPacketsSinceConnect < m_receivedRobotPackets

\* C5: readRobotPacket resets the since-connect pair if and only if the
\* decoder accepts the packet and the robot was marked disconnected at call
\* time; that read marks the robot connected, and the robot stays connected
\* until Config marks it failing, so every later read of the connection
\* (accepted or rejected) and every rejected read counts without resetting.
C5_ResetOncePerConnection ==
    [][ /\ lastCall' = "readRobotPacket" =>
              IF decoded' /\ ~isConnectedToRobot
              THEN /\ sinceConnect' = <<0, 0>>
                   /\ isConnectedToRobot'
              ELSE /\ m_recvRobotPacketsSinceConnect' =
                          m_recvRobotPacketsSinceConnect + 1
                   /\ m_sentRobotPacketsSinceConnect' =
                          m_sentRobotPacketsSinceConnect
                   /\ isConnectedToRobot' = isConnectedToRobot
        /\ (isConnectedToRobot /\ ~isConnectedToRobot') =>
              lastCall' = "updateRobotCommStatus" ]_vars

C5_Witness ==
    /\ lastCall = "readRobotPacket"
    /\ ret
    /\ isConnectedToRobot
    /\ m_recvRobotPacketsSinceConnect = 2
    /\ m_receivedRobotPackets = 3
    /\ m_sentRobotPacketsSinceConnect = 0
    /\ m_sentRobotPackets > 0

\* C6: when the decoder rejects the bytes, readRobotPacket returns false,
\* recvRobot is one greater than before, the robot comms status is unchanged
\* and the since-connect pair is counted, not reset.
C6_RejectedRobotRead ==
    [][(lastCall' = "readRobotPacket" /\ ~decoded') =>
          /\ ret' = FALSE
          /\ m_receivedRobotPackets' = m_receivedRobotPackets + 1
          /\ m_robotCommStatus' = m_robotCommStatus
          /\ m_recvRobotPacketsSinceConnect' =
                 m_recvRobotPacketsSinceConnect + 1
          /\ m_sentRobotPacketsSinceConnect' =
                 m_sentRobotPacketsSinceConnect]_vars

C6_Witness ==
    /\ lastCall = "readRobotPacket"
    /\ ~decoded
    /\ ~ret
    /\ m_robotCommStatus = kCommsFailing
    /\ m_receivedRobotPackets = 2
    /\ m_recvRobotPacketsSinceConnect = 2
    /\ m_sentRobotPacketsSinceConnect > 0

\* C7: none of the six session counters ever decreases, and each changes
\* only by steps of +1.
C7_SessionCountersMonotonic ==
    [][ /\ m_sentFmsPackets' \in {m_sentFmsPackets, m_sentFmsPackets + 1}
        /\ m_sentRadioPackets' \in {m_sentRadioPackets, m_sentRadioPackets + 1}
        /\ m_sentRobotPackets' \in {m_sentRobotPackets, m_sentRobotPackets + 1}
        /\ m_receivedFmsPackets' \in
               {m_receivedFmsPackets, m_receivedFmsPackets + 1}
        /\ m_receivedRadioPackets' \in
               {m_receivedRadioPackets, m_receivedRadioPackets + 1}
        /\ m_receivedRobotPackets' \in
               {m_receivedRobotPackets, m_receivedRobotPackets + 1} ]_vars

C7_Witness ==
    /\ lastCall = "resetLossCounter"
    /\ m_sentFmsPackets > 0
    /\ m_sentRadioPackets > 0
    /\ m_sentRobotPackets > 0
    /\ m_receivedFmsPackets > 0
    /\ m_receivedRadioPackets > 0
    /\ m_receivedRobotPackets > 0

\* C8: after 10 generateRobotPacket calls on a fresh instance, a read that
\* succeeds while the robot is marked disconnected leaves
\* sentRobotSinceConnect = 0 and sentRobot = 10; no read* call moves
\* sentRobotSinceConnect away from 0, and it leaves 0 only by becoming 1 at a
\* generateRobotPacket call.
C8_SentWindowAfterReconnect ==
    [][ /\ (ReconnectRead /\ m_sentRobotPackets = 10
              /\ m_sentRobotPacketsSinceConnect = 10) =>
              /\ m_sentRobotPacketsSinceConnect' = 0
              /\ m_sentRobotPackets' = 10
        /\ (lastCall' \in ReadCalls /\ m_sentRobotPacketsSinceConnect = 0) =>
              m_sentRobotPacketsSinceConnect' = 0
        /\ (m_sentRobotPacketsSinceConnect = 0
              /\ m_sentRobotPacketsSinceConnect' # 0) =>
              /\ lastCall' = "generateRobotPacket"
              /\ packet' = getRobotPacket
              /\ UNCHANGED <<latches, station, threads>>
              /\ m_sentRobotPacketsSinceConnect' = 1 ]_vars

C8_Witness ==
    /\ lastCall = "generateRobotPacket"
    /\ m_sentRobotPackets = 11
    /\ m_sentRobotPacketsSinceConnect = 1
    /\ m_recvRobotPacketsSinceConnect = 1
    /\ m_receivedRobotPackets = 2
    /\ m_receivedFmsPackets > 0
    /\ isConnectedToRobot

\* C9: for each peer, read returns true exactly when the peer's decoder
\* accepted the bytes, and whenever it returns true the peer's comms status
\* is Working immediately afterwards.
C9_ReadSuccessMarksWorking ==
    [][ /\ lastCall' \in ReadCalls => ret' = decoded'
        /\ (lastCall' = "readFMSPacket" /\ ret') =>
              m_fmsCommStatus' = kCommsWorking
        /\ (lastCall' = "readRadioPacket" /\ ret') =>
              m_radioCommStatus' = kCommsWorking
        /\ (lastCall' = "readRobotPacket" /\ ret') =>
              m_robotCommStatus' = kCommsWorking ]_vars

C9_Witness ==
    /\ lastCall = "readRadioPacket"
    /\ ret
    /\ m_radioCommStatus = kCommsWorking
    /\ m_fmsCommStatus = kCommsFailing
    /\ m_robotCommStatus = kCommsFailing
    /\ m_receivedRadioPackets = 1

\* C10: resetLossCounter sets both since-connect counters to 0 and leaves
\* the six session counters and every comms status unchanged; a second call
\* right after the first changes nothing.
C10_ResetLossCounterFrame ==
    [][lastCall' = "resetLossCounter" =>
          /\ m_recvRobotPacketsSinceConnect' = 0
          /\ m_sentRobotPacketsSinceConnect' = 0
          /\ counters' = counters
          /\ commStatus' = commStatus
          /\ (lastCall = "resetLossCounter" =>
                 sinceConnect' = sinceConnect)]_vars

C10_Witness ==
    /\ lastCall = "resetLossCounter"
    /\ sinceConnect = <<0, 0>>
    /\ m_sentRobotPackets = 3
    /\ m_receivedRobotPackets = 3
    /\ m_sentFmsPackets > 0
    /\ isConnectedToRobot

GenerateCalls == {"generateFMSPacket", "generateRadioPacket",
                  "generateRobotPacket"}

HookCalls == {"rebootRobot", "restartRobotCode", "onFMSWatchdogExpired",
              "onRadioWatchdogExpired", "onRobotWatchdogExpired"}

\* C11: for the base Protocol the input and the output port of every peer
\* are the disabled-port sentinel, and every generate*Packet call returns an
\* empty byte sequence, in every reachable state.
C11_UnconfiguredPeer ==
    /\ fmsInputPort = DS_DISABLED_PORT
    /\ fmsOutputPort = DS_DISABLED_PORT
    /\ radioInputPort = DS_DISABLED_PORT
    /\ radioOutputPort = DS_DISABLED_PORT
    /\ robotInputPort = DS_DISABLED_PORT
    /\ robotOutputPort = DS_DISABLED_PORT
    /\ lastCall \in GenerateCalls => Len(packet) = 0

C11_Witness ==
    /\ lastCall = "generateRobotPacket"
    /\ packet = <<>>
    /\ m_sentRobotPackets = 3
    /\ m_sentFmsPackets > 0
    /\ m_sentRadioPackets > 0
    /\ isConnectedToRobot

\* C12: with the default hooks, a call of rebootRobot, restartRobotCode,
\* onFMSWatchdogExpired, onRadioWatchdogExpired or onRobotWatchdogExpired
\* leaves all eight counters and all comms statuses unchanged.
C12_DefaultHooksFrame ==
    [][lastCall' \in HookCalls =>
          /\ counters' = counters
          /\ sinceConnect' = sinceConnect
          /\ commStatus' = commStatus]_vars

C12_Witness ==
    /\ lastCall = "onRobotWatchdogExpired"
    /\ m_sentRobotPacketsSinceConnect > 0
    /\ m_recvRobotPacketsSinceConnect > 0
    /\ m_sentFmsPackets > 0
    /\ m_receivedRadioPackets > 0
    /\ isConnectedToRobot

\* C15: every generate*Packet call raises the matching sent counter (and,
\* for the robot, sentRobotSinceConnect) by exactly 1 even when the packet
\* it returns is empty, so for an unconfigured peer the counters count ticks.
C15_EmptyPacketsAreCounted ==
    [][ /\ (lastCall' = "generateFMSPacket" /\ packet' = <<>>) =>
              m_sentFmsPackets' = m_sentFmsPackets + 1
        /\ (lastCall' = "generateRadioPacket" /\ packet' = <<>>) =>
              m_sentRadioPackets' = m_sentRadioPackets + 1
        /\ (lastCall' = "generateRobotPacket" /\ packet' = <<>>) =>
              /\ m_sentRobotPackets' = m_sentRobotPackets + 1
              /\ m_sentRobotPacketsSinceConnect' =
                     m_sentRobotPacketsSinceConnect + 1 ]_vars

C15_Witness ==
    /\ lastCall = "generateRobotPacket"
    /\ packet = <<>>
    /\ m_sentRobotPacketsSinceConnect = 3
    /\ m_recvRobotPacketsSinceConnect = 0
    /\ m_receivedRobotPackets = 0
    /\ m_sentFmsPackets = 1
    /\ m_sentRadioPackets = 1

\* C16: a generate or read call for a peer changes only that peer's own
\* counters and, for an accepted read, only that peer's comms status: FMS and
\* radio calls never change the robot counters or the since-connect pair,
\* generate* changes no received counter and no comms status, and read*
\* changes no sent counter except sentRobotSinceConnect in the reconnect
\* reset.
C16_PerPeerIsolation ==
    [][ /\ lastCall' = "generateFMSPacket" =>
              UNCHANGED <<m_sentRadioPackets, m_sentRobotPackets,
                          m_receivedFmsPackets, m_receivedRadioPackets,
                          m_receivedRobotPackets, sinceConnect, commStatus>>
        /\ lastCall' = "generateRadioPacket" =>
              UNCHANGED <<m_sentFmsPackets, m_sentRobotPackets,
                          m_receivedFmsPackets, m_receivedRadioPackets,
                          m_receivedRobotPackets, sinceConnect, commStatus>>
        /\ lastCall' = "generateRobotPacket" =>
              UNCHANGED <<m_sentFmsPackets, m_sentRadioPackets,
                          m_receivedFmsPackets, m_receivedRadioPackets,
                          m_receivedRobotPackets,
                          m_recvRobotPacketsSinceConnect, commStatus>>
        /\ lastCall' = "readFMSPacket" =>
              /\ UNCHANGED <<m_sentFmsPackets, m_sentRadioPackets,
                             m_sentRobotPackets, m_receivedRadioPackets,
                             m_receivedRobotPackets, sinceConnect,
                             m_radioCommStatus, m_robotCommStatus>>
              /\ ~decoded' => UNCHANGED m_fmsCommStatus
        /\ lastCall' = "readRadioPacket" =>
              /\ UNCHANGED <<m_sentFmsPackets, m_sentRadioPackets,
                             m_sentRobotPackets, m_receivedFmsPackets,
                             m_receivedRobotPackets, sinceConnect,
                             m_fmsCommStatus, m_robotCommStatus>>
              /\ ~decoded' => UNCHANGED m_radioCommStatus
        /\ lastCall' = "readRobotPacket" =>
              /\ UNCHANGED <<m_sentFmsPackets, m_sentRadioPackets,
                             m_sentRobotPackets, m_receivedFmsPackets,
                             m_receivedRadioPackets, m_fmsCommStatus,
                             m_radioCommStatus>>
              /\ ~decoded' => UNCHANGED m_robotCommStatus
              /\ ~ReconnectRead => UNCHANGED m_sentRobotPacketsSinceConnect ]_vars

C16_Witness ==
    /\ lastCall = "readFMSPacket"
    /\ ret
    /\ m_fmsCommStatus = kCommsWorking
    /\ m_radioCommStatus = kCommsFailing
    /\ m_robotCommStatus = kCommsFailing
    /\ m_receivedFmsPackets = 1
    /\ m_receivedRadioPackets = 0
    /\ m_receivedRobotPackets = 0
    /\ m_sentRobotPacketsSinceConnect = 3

C14_StationCodeRoundTrip ==
    /\ \A a1 \in Alliances, a2 \in Alliances :
         \A p1 \in Positions, p2 \in Positions :
            StationCode(a1, p1) = StationCode(a2, p2) => (a1 = a2 /\ p1 = p2)
    /\ \A a \in Alliances, p \in Positions :
          /\ getAlliance(StationCode(a, p)) = a
          /\ getPosition(StationCode(a, p)) = p
    /\ lastCall = "generateRobotPacket" =>
          /\ getAlliance(packet[3]) = m_alliance
          /\ getPosition(packet[3]) = m_position

C14_Witness ==
    /\ lastCall = "generateRobotPacket"
    /\ m_alliance = kAllianceBlue
    /\ m_position = kPosition3
    /\ packet[3] = 5
    /\ m_receivedFmsPackets = 1
    /\ m_fmsCommStatus = kCommsWorking

\* Both calls have returned and the read was a reconnecting one
BothReturned ==
    /\ tick.pc = "done"
    /\ receiver.pc = "done"
    /\ receiver.accepted

\* C17: when the generateRobotPacket call and the reconnecting
\* readRobotPacket call are serialized, sentRobotSinceConnect is at most 1
\* once both have returned (0 if the read ran last, 1 if the generate did);
\* without serialization a state with sentRobotSinceConnect > 1 is reached,
\* the reset being overwritten by the stale increment.
C17_SerializedResetNotLost ==
    (BothReturned /\ serialized) =>
        /\ m_sentRobotPacketsSinceConnect \in {0, 1}
        /\ m_recvRobotPacketsSinceConnect = 0

C17_Witness ==
    /\ BothReturned
    /\ ~serialized
    /\ m_sentRobotPacketsSinceConnect > 1
    /\ m_recvRobotPacketsSinceConnect = 0
    /\ isConnectedToRobot

====
